---- MODULE Spec2Model ----
(***************************************************************************)
(* Remote-catalog synchronisation pipeline of GameLauncher:                *)
(*   schemaValidator (validate / sanitize untrusted catalog JSON),         *)
(*   storageService  (AsyncStorage-backed catalog cache with 24h expiry),  *)
(*   remoteCatalogService (conditional fetch, retry, fallback chain).      *)
(*                                                                         *)
(* JavaScript strings are sequences of text fragments ("tokens"); offsets  *)
(* into a string are character offsets computed from the fragments'        *)
(* lengths, so that the lastIndex bookkeeping of the /g regular            *)
(* expressions is the one the engine performs.                             *)
(***************************************************************************)
EXTENDS Integers, Sequences, FiniteSets, TLC

(***************************************************************************)
(* JavaScript values                                                       *)
(***************************************************************************)
\* every JS value is a record of one shape so that values of different
\* JS types can be compared
Absent == [t |-> "absent", s |-> <<>>, n |-> 0]
Undef  == [t |-> "undefined", s |-> <<>>, n |-> 0]
Str(s) == [t |-> "string", s |-> s, n |-> 0]
Num(n) == [t |-> "number", s |-> <<>>, n |-> n]
Bool(b) == [t |-> "boolean", s |-> <<>>, n |-> IF b THEN 1 ELSE 0]

\* JS truthiness: !v is true for a missing property, undefined, "", 0, false
Truthy(v) ==
  CASE v.t = "string" -> Len(v.s) > 0
    [] v.t = "number" -> v.n # 0
    [] v.t = "boolean" -> v.n = 1
    [] OTHER -> FALSE

\* the value a statement produced: the only element of a one-element set, so
\* that a result is computed once before the statements that follow use it
The(S) == CHOOSE v \in S : TRUE

(***************************************************************************)
(* Strings: text fragments and their lengths                               *)
(***************************************************************************)
TokLen(tok) ==
  CASE tok = "a" -> 1
    [] tok = "b" -> 1
    [] tok = " " -> 1
    [] tok = "\\x01" -> 1
    [] tok = "<script>x</script>" -> 18
    [] tok = "<iframe></iframe>" -> 17
    [] tok = "<object></object>" -> 17
    [] tok = "<embed>" -> 7
    [] tok = "<form></form>" -> 13
    [] tok = "javascript:" -> 11
    [] tok = "vbscript:" -> 9
    [] tok = "data:text/html" -> 14
    [] tok = "data:" -> 5
    [] tok = "onclick=" -> 8
    [] tok = "https://" -> 8
    [] tok = "http://" -> 7
    [] tok = "ftp://" -> 6
    [] tok = "file://" -> 7
    [] tok = "game.example" -> 12
    [] tok = "GAME.example" -> 12
    [] tok = "localhost" -> 9
    [] tok = "127.0.0.1" -> 9
    [] tok = "a..b.example" -> 12
    [] tok = "/" -> 1
    [] tok = "/a" -> 2
    [] tok = "/etc" -> 4
    [] tok = "/.." -> 3
    [] tok = "/." -> 2
    [] tok = "/x..y" -> 5
    [] tok = "/data:" -> 6
    [] OTHER -> 1

RECURSIVE StrLen(_)
StrLen(s) == IF s = <<>> THEN 0 ELSE TokLen(Head(s)) + StrLen(Tail(s))

\* character offset at which fragment i of s starts
StartOf(s, i) == StrLen(SubSeq(s, 1, i - 1))

IsWhite(tok) == tok = " "
IsControl(tok) == tok = "\\x01"

\* String.prototype.trim
RECURSIVE TrimLeft(_)
TrimLeft(s) == IF s # <<>> /\ IsWhite(Head(s)) THEN TrimLeft(Tail(s)) ELSE s
RECURSIVE TrimRight(_)
TrimRight(s) ==
  IF s # <<>> /\ IsWhite(s[Len(s)]) THEN TrimRight(SubSeq(s, 1, Len(s) - 1)) ELSE s
Trim(s) == TrimRight(TrimLeft(s))

\* .replace(/[\x00-\x1F\x7F]/g, '')
StripControl(s) == SelectSeq(s, LAMBDA tok : ~IsControl(tok))

\* .substring(0, maxLength): whole fragments that fit in maxLength characters
RECURSIVE Substring0(_, _)
Substring0(s, maxLength) ==
  IF s = <<>> \/ TokLen(Head(s)) > maxLength THEN <<>>
  ELSE <<Head(s)>> \o Substring0(Tail(s), maxLength - TokLen(Head(s)))

(***************************************************************************)
(* Regular expressions with the g flag (RegExp.prototype.test)             *)
(***************************************************************************)
XSS_PATTERNS ==
  << "script", "iframe", "object", "embed", "form",
     "javascript:", "vbscript:", "data:text/html", "on=" >>

DANGEROUS_URL_PATTERNS ==
  << "javascript:", "vbscript:", "data:", "file:", "ftp:" >>

\* where inside fragment tok the pattern pat matches: [hit, from, to] with
\* from/to character offsets relative to the start of the fragment
NoMatch == [hit |-> FALSE, from |-> 0, to |-> 0]
Match(from, to) == [hit |-> TRUE, from |-> from, to |-> to]
MatchIn(pat, tok) ==
  CASE pat = "script" /\ tok = "<script>x</script>" -> Match(0, 18)
    [] pat = "iframe" /\ tok = "<iframe></iframe>" -> Match(0, 17)
    [] pat = "object" /\ tok = "<object></object>" -> Match(0, 17)
    [] pat = "embed" /\ tok = "<embed>" -> Match(0, 7)
    [] pat = "form" /\ tok = "<form></form>" -> Match(0, 13)
    [] pat = "javascript:" /\ tok = "javascript:" -> Match(0, 11)
    [] pat = "vbscript:" /\ tok = "vbscript:" -> Match(0, 9)
    [] pat = "data:text/html" /\ tok = "data:text/html" -> Match(0, 14)
    [] pat = "on=" /\ tok = "onclick=" -> Match(0, 8)
    [] pat = "data:" /\ tok \in {"data:", "data:text/html"} -> Match(0, 5)
    [] pat = "data:" /\ tok = "/data:" -> Match(1, 6)
    [] pat = "file:" /\ tok = "file://" -> Match(0, 5)
    [] pat = "ftp:" /\ tok = "ftp://" -> Match(0, 4)
    [] OTHER -> NoMatch

\* fragments of s in which pat matches at or after character offset lastIndex
MatchesFrom(pat, s, lastIndex) ==
  { i \in {j \in 1..Len(s) : MatchIn(pat, s[j]).hit} :
      StartOf(s, i) + MatchIn(pat, s[i]).from >= lastIndex }

Least(S) == CHOOSE i \in S : \A j \in S : i <= j

\* pattern.test(s) for a /g pattern whose lastIndex is lastIndex: the search
\* starts at lastIndex; a match leaves lastIndex at the end of the match, a
\* failure resets it to 0
RegexTest(pat, s, lastIndex) ==
  LET hits == MatchesFrom(pat, s, lastIndex)
  IN IF hits = {}
       THEN [found |-> FALSE, lastIndex |-> 0]
       ELSE [found |-> TRUE,
             lastIndex |-> StartOf(s, Least(hits)) + MatchIn(pat, s[Least(hits)]).to]

\* for (const pattern of pats) { if (pattern.test(s)) return ... } starting
\* at pattern i; last is the lastIndex of every pattern object
RECURSIVE TestPatterns(_, _, _, _)
TestPatterns(pats, last, s, i) ==
  IF i > Len(pats) THEN [hit |-> FALSE, last |-> last]
  ELSE LET r == RegexTest(pats[i], s, last[i])
       IN IF r.found
            THEN [hit |-> TRUE, last |-> [last EXCEPT ![i] = r.lastIndex]]
            ELSE TestPatterns(pats, [last EXCEPT ![i] = 0], s, i + 1)

(***************************************************************************)
(* schemaValidator.sanitizeString                                          *)
(***************************************************************************)
\* returns the sanitized string (or undefined) and the patterns' lastIndex
sanitizeString(input, maxLength, xssLast) ==
  IF input.t # "string" THEN [val |-> Undef, last |-> xssLast]
  ELSE The({ IF scan.hit THEN [val |-> Undef, last |-> scan.last]
             ELSE IF Len(sanitized) = 0 THEN [val |-> Undef, last |-> scan.last]
             ELSE [val |-> Str(sanitized), last |-> scan.last]
           : scan \in {TestPatterns(XSS_PATTERNS, xssLast, input.s, 1)},
             sanitized \in {Substring0(StripControl(Trim(input.s)), maxLength)} })

(***************************************************************************)
(* new URL(...) as used by the validator and by isValidUrl                 *)
(***************************************************************************)
AuthoritySchemes == {"https://", "http://", "ftp://"}
OpaqueSchemes == {"javascript:", "vbscript:", "data:", "data:text/html"}
HostTokens == {"game.example", "GAME.example", "localhost", "127.0.0.1", "a..b.example"}
PathTokens == {"/", "/a", "/etc", "/..", "/.", "/x..y", "/data:"}

Protocol(scheme) ==
  CASE scheme = "https://" -> "https:"
    [] scheme = "http://" -> "http:"
    [] scheme = "ftp://" -> "ftp:"
    [] scheme = "file://" -> "file:"
    [] scheme = "data:text/html" -> "data:"
    [] OTHER -> scheme

\* the parser lower-cases the host
LowerHost(h) == IF h = "GAME.example" THEN "game.example" ELSE h

\* the parser resolves "." and ".." path segments
RECURSIVE RemoveDotSegments(_, _)
RemoveDotSegments(path, acc) ==
  IF path = <<>> THEN acc
  ELSE IF Head(path) = "/.." 
         THEN RemoveDotSegments(Tail(path),
                IF acc = <<>> THEN acc ELSE SubSeq(acc, 1, Len(acc) - 1))
  ELSE IF Head(path) = "/." THEN RemoveDotSegments(Tail(path), acc)
  ELSE RemoveDotSegments(Tail(path), Append(acc, Head(path)))

NormalPath(path) ==
  LET p == RemoveDotSegments(path, <<>>) IN IF p = <<>> THEN <<"/">> ELSE p

UrlParseError == [ok |-> FALSE, protocol |-> "", hostname |-> "", pathname |-> <<>>, href |-> <<>>]

\* new URL(s): ok = FALSE stands for the TypeError the constructor throws
ParseUrlTrimmed(s) ==
  IF s = <<>> THEN UrlParseError
  ELSE IF Head(s) \in AuthoritySchemes THEN
    IF /\ Len(s) >= 2
       /\ s[2] \in HostTokens
       /\ \A i \in 3..Len(s) : s[i] \in PathTokens
    THEN LET path == NormalPath(SubSeq(s, 3, Len(s)))
         IN [ok |-> TRUE, protocol |-> Protocol(s[1]), hostname |-> LowerHost(s[2]),
             pathname |-> path, href |-> <<s[1], LowerHost(s[2])>> \o path]
    ELSE UrlParseError
  ELSE IF Head(s) = "file://" THEN
    IF \A i \in 2..Len(s) : s[i] \in PathTokens
    THEN LET path == NormalPath(Tail(s))
         IN [ok |-> TRUE, protocol |-> "file:", hostname |-> "",
             pathname |-> path, href |-> <<"file://">> \o path]
    ELSE UrlParseError
  ELSE IF Head(s) \in OpaqueSchemes THEN
    [ok |-> TRUE, protocol |-> Protocol(s[1]), hostname |-> "",
     pathname |-> Tail(s), href |-> s]
  ELSE UrlParseError

\* the parser strips leading and trailing whitespace before parsing
ParseUrl(s) == ParseUrlTrimmed(Trim(s))

HostStartsWith127(h) == h = "127.0.0.1"
HostHasDotDot(h) == h = "a..b.example"
PathHasDotDot(path) == \E i \in 1..Len(path) : path[i] \in {"/x..y", "/.."}

(***************************************************************************)
(* schemaValidator.validateAndSanitizeUrl                                  *)
(***************************************************************************)
ALLOWED_URL_PROTOCOLS == {"https:", "http:"}

validateAndSanitizeUrl(url, urlLast) ==
  IF url.t # "string" \/ Len(Trim(url.s)) = 0
    THEN [isValid |-> FALSE, errors |-> <<"URL must be a non-empty string">>,
          sanitizedUrl |-> Undef, last |-> urlLast]
  ELSE The({
         LET Bad(e) == [isValid |-> FALSE, errors |-> <<e>>,
                        sanitizedUrl |-> Undef, last |-> scan.last]
         IN IF scan.hit THEN Bad("URL contains dangerous protocol or pattern")
            ELSE IF ~parsedUrl.ok THEN Bad("Invalid URL format")
            ELSE IF parsedUrl.protocol \notin ALLOWED_URL_PROTOCOLS
              THEN Bad("Unsupported protocol")
            ELSE IF parsedUrl.hostname = "" THEN Bad("URL must have a valid hostname")
            ELSE IF parsedUrl.hostname = "localhost" \/ HostStartsWith127(parsedUrl.hostname)
              THEN Bad("Localhost URLs are not allowed")
            ELSE IF HostHasDotDot(parsedUrl.hostname) \/ PathHasDotDot(parsedUrl.pathname)
              THEN Bad("URLs with path traversal patterns are not allowed")
            ELSE [isValid |-> TRUE, errors |-> <<>>,
                  sanitizedUrl |-> Str(parsedUrl.href), last |-> scan.last]
         : scan \in {TestPatterns(DANGEROUS_URL_PATTERNS, urlLast, Trim(url.s), 1)},
           parsedUrl \in {ParseUrl(Trim(url.s))} })

(***************************************************************************)
(* schemaValidator.validateGame / validateCatalog                          *)
(***************************************************************************)
GameFields ==
  {"id", "title", "image", "url", "preferredOrientation", "category",
   "description", "enabled", "disabledReason"}

\* GAME_SCHEMA.required, in order
RequiredFields == <<"id", "title", "image", "url">>

\* an object literal with the given properties; the others are missing
Obj(props) ==
  [obj |-> TRUE,
   f |-> [k \in GameFields |-> IF k \in DOMAIN props THEN props[k] ELSE Absent]]

\* a catalog item that is not an object (null, a number, ...)
NotAnObject == [obj |-> FALSE, f |-> [k \in GameFields |-> Absent]]

MaxLengthId == 100
MaxLengthTitle == 200
MaxLengthCategory == 50
MaxLengthDescription == 1000
MaxLengthDisabledReason == 500
CatalogMaxItems == 1000

RECURSIVE RequiredErrors(_, _)
RequiredErrors(gameData, i) ==
  IF i > Len(RequiredFields) THEN <<>>
  ELSE LET v == gameData.f[RequiredFields[i]]
           e == IF ~Truthy(v) THEN <<"Missing required field">>
                ELSE IF v.t # "string" THEN <<"Field must be a string">>
                ELSE <<>>
       IN e \o RequiredErrors(gameData, i + 1)

\* the statements of validateGame that follow the check of the required
\* fields, one per field, in source order
FieldOrder ==
  <<"id", "title", "image", "url", "preferredOrientation", "category",
    "description", "enabled", "disabledReason">>

\* sanitizedGame[k] = this.sanitizeString(gameData[k], maxLength), with the
\* errors pushed when the result is undefined; acc = [f, errors, rx] is
\* sanitizedGame, errors and the lastIndex of the regular expressions
StringField(g, acc, k, maxLength, errs) ==
  The({ [f |-> [acc.f EXCEPT ![k] = r.val],
         errors |-> IF r.val = Undef THEN acc.errors \o errs ELSE acc.errors,
         rx |-> [acc.rx EXCEPT !.xss = r.last]]
        : r \in {sanitizeString(g[k], maxLength, acc.rx.xss)} })

\* this.validateAndSanitizeUrl(gameData[k]): the sanitized url is kept when
\* valid, an error is pushed otherwise
UrlField(g, acc, k, errs) ==
  The({ [f |-> IF r.isValid THEN [acc.f EXCEPT ![k] = r.sanitizedUrl] ELSE acc.f,
         errors |-> IF r.isValid THEN acc.errors ELSE acc.errors \o errs,
         rx |-> [acc.rx EXCEPT !.url = r.last]]
        : r \in {validateAndSanitizeUrl(g[k], acc.rx.url)} })

FieldStatement(g, acc, k) ==
  CASE k = "id" -> StringField(g, acc, k, MaxLengthId, <<"Invalid or unsafe ID">>)
    [] k = "title" ->
         StringField(g, acc, k, MaxLengthTitle, <<"Invalid or unsafe title">>)
    [] k = "image" -> UrlField(g, acc, k, <<"Invalid image URL">>)
    [] k = "url" -> UrlField(g, acc, k, <<"Invalid game URL">>)
    [] k = "preferredOrientation" ->
         IF ~Truthy(g[k]) THEN acc
         ELSE IF g[k] \in {Str(<<"portrait">>), Str(<<"landscape">>)}
           THEN [acc EXCEPT !.f[k] = g[k]]
         ELSE [acc EXCEPT !.errors = Append(@, "Invalid preferredOrientation")]
    [] k = "category" ->
         IF ~Truthy(g[k]) THEN acc
         ELSE StringField(g, acc, k, MaxLengthCategory, <<"Invalid or unsafe category">>)
    [] k = "description" ->
         IF ~Truthy(g[k]) THEN acc
         ELSE StringField(g, acc, k, MaxLengthDescription,
                          <<"Invalid or unsafe description">>)
    [] k = "enabled" ->
         IF g[k].t = "boolean" THEN [acc EXCEPT !.f[k] = g[k]] ELSE acc
    [] k = "disabledReason" ->
         \* no error is pushed when the reason is unsafe
         IF ~Truthy(g[k]) THEN acc
         ELSE StringField(g, acc, k, MaxLengthDisabledReason, <<>>)

RECURSIVE FieldStatements(_, _, _)
FieldStatements(g, acc, i) ==
  IF i > Len(FieldOrder) THEN acc
  ELSE The({ FieldStatements(g, a, i + 1) : a \in {FieldStatement(g, acc, FieldOrder[i])} })

\* rx = [xss, url]: the lastIndex of the XSS_PATTERNS and of the
\* DANGEROUS_URL_PATTERNS regular expressions of the validator singleton
validateGame(gameData, rx) ==
  IF ~gameData.obj
    THEN [isValid |-> FALSE, errors |-> <<"Game must be an object">>,
          hasData |-> FALSE, sanitizedData |-> NotAnObject, rx |-> rx]
  ELSE IF RequiredErrors(gameData, 1) # <<>>
    THEN [isValid |-> FALSE, errors |-> RequiredErrors(gameData, 1),
          hasData |-> FALSE, sanitizedData |-> NotAnObject, rx |-> rx]
  ELSE
    The({ [isValid |-> Len(acc.errors) = 0, errors |-> acc.errors,
           hasData |-> TRUE, sanitizedData |-> [obj |-> TRUE, f |-> acc.f],
           rx |-> acc.rx]
          : acc \in {FieldStatements(gameData.f,
                        [f |-> [k \in GameFields |-> Absent], errors |-> <<>>, rx |-> rx],
                        1)} })

\* the for loop of validateCatalog from item i on
RECURSIVE ValidateItems(_, _, _, _, _)
ValidateItems(items, i, sanitizedGames, allErrors, rx) ==
  IF i > Len(items)
    THEN [isValid |-> Len(allErrors) = 0, errors |-> allErrors,
          hasData |-> TRUE, sanitizedData |-> sanitizedGames, rx |-> rx]
  ELSE The({ IF gameValidation.isValid /\ gameValidation.hasData
               THEN ValidateItems(items, i + 1,
                      Append(sanitizedGames, gameValidation.sanitizedData),
                      allErrors, gameValidation.rx)
               ELSE ValidateItems(items, i + 1, sanitizedGames,
                      Append(allErrors, <<i - 1, gameValidation.errors>>),
                      gameValidation.rx)
             : gameValidation \in {validateGame(items[i], rx)} })

\* variant of validateCatalog: a catalog is valid as soon as one item is
validateCatalogPartial(catalogData, rx) ==
  IF ~catalogData.arr
    THEN [isValid |-> FALSE, errors |-> <<"Catalog must be an array">>,
          hasData |-> FALSE, sanitizedData |-> <<>>, rx |-> rx]
  ELSE LET r == ValidateItems(catalogData.items, 1, <<>>, <<>>, rx)
       IN [r EXCEPT !.isValid = Len(r.sanitizedData) > 0]

\* catalogData = [arr, items]: arr = FALSE is a JSON value that is not an array
validateCatalog(catalogData, rx) ==
  IF ~catalogData.arr
    THEN [isValid |-> FALSE, errors |-> <<"Catalog must be an array">>,
          hasData |-> FALSE, sanitizedData |-> <<>>, rx |-> rx]
  ELSE IF Len(catalogData.items) > CatalogMaxItems
    THEN [isValid |-> FALSE, errors |-> <<"Catalog too large">>,
          hasData |-> FALSE, sanitizedData |-> <<>>, rx |-> rx]
  ELSE ValidateItems(catalogData.items, 1, <<>>, <<>>, rx)

(***************************************************************************)
(* remoteCatalogService.validateGameSchema / isValidUrl                    *)
(***************************************************************************)
\* null is [ok |-> FALSE]
validateGameSchema(games, rx) ==
  The({ IF ~validation.isValid
          THEN [ok |-> FALSE, games |-> <<>>, rx |-> validation.rx]
          ELSE [ok |-> TRUE, games |-> validation.sanitizedData, rx |-> validation.rx]
        : validation \in {validateCatalog(games, rx)} })

ALLOWED_PROTOCOLS == {"https:"}

\* variant of isValidUrl: the protocol is not checked
isValidUrlAnyProtocol(url) ==
  LET parsedUrl == ParseUrl(url)
  IN parsedUrl.ok /\ parsedUrl.hostname # ""

isValidUrl(url) ==
  LET parsedUrl == ParseUrl(url)
  IN IF ~parsedUrl.ok THEN FALSE
     ELSE IF parsedUrl.protocol \notin ALLOWED_PROTOCOLS THEN FALSE
     ELSE IF parsedUrl.hostname = "" THEN FALSE
     ELSE TRUE

(***************************************************************************)
(* Conversions used by the cache: Date.now().toString(), parseInt,         *)
(* JSON.stringify, JSON.parse                                              *)
(***************************************************************************)
Digits == <<"0", "1", "2", "3", "4", "5", "6", "7", "8", "9">>
DigitValue(d) == CHOOSE v \in 0..9 : Digits[v + 1] = d

\* Number.prototype.toString for a non-negative integer
RECURSIVE NumberToString(_)
NumberToString(n) ==
  IF n < 10 THEN <<Digits[n + 1]>>
  ELSE Append(NumberToString(n \div 10), Digits[(n % 10) + 1])

\* parseInt of a string of decimal digits
RECURSIVE parseInt(_)
parseInt(s) ==
  IF Len(s) = 1 THEN DigitValue(s[1])
  ELSE 10 * parseInt(SubSeq(s, 1, Len(s) - 1)) + DigitValue(s[Len(s)])

\* JSON.stringify drops the properties whose value is undefined
JSONStringify(games) ==
  << [i \in 1..Len(games) |->
     [obj |-> games[i].obj,
      f |-> [k \in GameFields |->
               IF games[i].f[k] = Undef THEN Absent ELSE games[i].f[k]]]] >>

\* JSON.parse of a text written by JSON.stringify (the text is the one-element
\* sequence holding the serialized array)
JSONParse(text) == text[1]

(***************************************************************************)
(* AsyncStorage and storageService                                         *)
(***************************************************************************)
GAMES_CACHE_KEY == "@games_cache"
CACHE_TIMESTAMP_KEY == "@games_cache_timestamp"
REMOTE_CATALOG_ETAG_KEY == "@remote_catalog_etag"
REMOTE_CATALOG_LAST_FETCH_KEY == "@remote_catalog_last_fetch"
CatalogKeys ==
  {GAMES_CACHE_KEY, CACHE_TIMESTAMP_KEY, REMOTE_CATALOG_ETAG_KEY,
   REMOTE_CATALOG_LAST_FETCH_KEY}

\* cache expiry, in clock units of one hour
CACHE_EXPIRY_MS == 24

\* a key that holds nothing (getItem resolves to null)
NoItem == [has |-> FALSE, v |-> <<>>]
Item(v) == [has |-> TRUE, v |-> v]

\* the storage operations that can reject; fails is the set of those that do
Get(key) == <<"getItem", key>>
Set(key) == <<"setItem", key>>
Remove(key) == <<"removeItem", key>>

\* Promise.all of AsyncStorage.setItem calls: every call that does not reject
\* takes effect
SetAll(store, writes, fails) ==
  [k \in DOMAIN store |->
     IF k \in DOMAIN writes /\ Set(k) \notin fails THEN Item(writes[k]) ELSE store[k]]

RemoveAll(store, keys, fails) ==
  [k \in DOMAIN store |->
     IF k \in keys /\ Remove(k) \notin fails THEN NoItem ELSE store[k]]

\* storageService.clearCache: rejections are caught
clearCache(store, fails) ==
  [store |-> RemoveAll(store, {GAMES_CACHE_KEY, CACHE_TIMESTAMP_KEY}, fails),
   ops |-> {Remove(GAMES_CACHE_KEY), Remove(CACHE_TIMESTAMP_KEY)}]

\* variant of cacheGames: the games are appended to the catalog stored
cacheGamesAppending(store, games, t, fails) ==
  [store |-> SetAll(store,
               [k \in {GAMES_CACHE_KEY, CACHE_TIMESTAMP_KEY} |->
                  IF k = GAMES_CACHE_KEY
                    THEN JSONStringify(
                           (IF store[GAMES_CACHE_KEY].has
                              THEN JSONParse(store[GAMES_CACHE_KEY].v) ELSE <<>>)
                           \o games)
                  ELSE NumberToString(t)],
               fails),
   ops |-> {Set(GAMES_CACHE_KEY), Set(CACHE_TIMESTAMP_KEY)}]

\* storageService.cacheGames at time t
cacheGames(store, games, t, fails) ==
  [store |-> SetAll(store,
               [k \in {GAMES_CACHE_KEY, CACHE_TIMESTAMP_KEY} |->
                  IF k = GAMES_CACHE_KEY THEN JSONStringify(games)
                  ELSE NumberToString(t)],
               fails),
   ops |-> {Set(GAMES_CACHE_KEY), Set(CACHE_TIMESTAMP_KEY)}]

\* null
NoGames == [ok |-> FALSE, games |-> <<>>]

\* variant of getCachedGames: a read that rejects is not a miss, the value
\* that was read is used
getCachedGamesDespiteFailure(store, t, fails) ==
  LET reads == {Get(GAMES_CACHE_KEY), Get(CACHE_TIMESTAMP_KEY)}
      jsonValue == store[GAMES_CACHE_KEY]
      timestampValue == store[CACHE_TIMESTAMP_KEY]
      cleared == clearCache(store, fails)
  IN IF jsonValue.has /\ (timestampValue.has \/ reads \cap fails # {})
       THEN IF timestampValue.has /\ reads \cap fails = {}
                 /\ t - parseInt(timestampValue.v) > CACHE_EXPIRY_MS
              THEN [games |-> NoGames, store |-> cleared.store,
                    ops |-> reads \cup cleared.ops]
              ELSE [games |-> [ok |-> TRUE, games |-> JSONParse(jsonValue.v)],
                    store |-> store, ops |-> reads]
     ELSE [games |-> NoGames, store |-> store, ops |-> reads]

\* variant of getCachedGames: the age of the cache is not looked at
getCachedGamesNoExpiry(store, t, fails) ==
  LET reads == {Get(GAMES_CACHE_KEY), Get(CACHE_TIMESTAMP_KEY)}
      jsonValue == store[GAMES_CACHE_KEY]
      timestampValue == store[CACHE_TIMESTAMP_KEY]
      cleared == clearCache(store, fails)
  IN IF reads \cap fails # {}
       THEN [games |-> NoGames, store |-> cleared.store, ops |-> reads \cup cleared.ops]
     ELSE IF jsonValue.has /\ timestampValue.has
       THEN [games |-> [ok |-> TRUE, games |-> JSONParse(jsonValue.v)],
             store |-> store, ops |-> reads]
     ELSE [games |-> NoGames, store |-> store, ops |-> reads]

\* storageService.getCachedGames at time t
getCachedGames(store, t, fails) ==
  LET reads == {Get(GAMES_CACHE_KEY), Get(CACHE_TIMESTAMP_KEY)}
      jsonValue == store[GAMES_CACHE_KEY]
      timestampValue == store[CACHE_TIMESTAMP_KEY]
      cleared == clearCache(store, fails)
  IN IF reads \cap fails # {}
       THEN [games |-> NoGames, store |-> cleared.store, ops |-> reads \cup cleared.ops]
     ELSE IF jsonValue.has /\ timestampValue.has
       THEN IF t - parseInt(timestampValue.v) > CACHE_EXPIRY_MS
              THEN [games |-> NoGames, store |-> cleared.store,
                    ops |-> reads \cup cleared.ops]
              ELSE [games |-> [ok |-> TRUE, games |-> JSONParse(jsonValue.v)],
                    store |-> store, ops |-> reads]
     ELSE [games |-> NoGames, store |-> store, ops |-> reads]

\* storageService.getItem / setItem / removeItem: generic key access that
\* absorbs a storage failure (a failed read is a miss, a failed write or
\* remove is skipped)
getItem(store, key, fails) ==
  [value |-> IF Get(key) \in fails THEN NoItem ELSE store[key], ops |-> {Get(key)}]

setItem(store, key, value, fails) ==
  [store |-> SetAll(store, [k \in {key} |-> value], fails), ops |-> {Set(key)}]

removeItem(store, key, fails) ==
  [store |-> RemoveAll(store, {key}, fails), ops |-> {Remove(key)}]

(***************************************************************************)
(* Inputs: configurations, the bundled catalog, server responses           *)
(***************************************************************************)
MAX_RETRY_ATTEMPTS == 3

\* bounds of the model
MaxStorageFailures == 1
MaxNow == 25

\* the clock advances by a day, or by a little more
TickSteps == {24, 25}

\* the two callers of fetchCatalog in GameListScreen: the load on launch and
\* the pull-to-refresh
Calls == {"launch", "refresh"}

GoodUrl == Str(<<"https://", "game.example", "/a">>)

ConfigUrls ==
  { Absent, Str(<<>>),                              \* no url configured
    GoodUrl,
    Str(<<"http://", "game.example", "/a">>),       \* not https
    Str(<<"/a">>),                                  \* not absolute
    Str(<<"https://", "/a">>) }                     \* empty host

\* the catalog entries the server sends
EntryPlain ==
  Obj([id |-> Str(<<"a">>), title |-> Str(<<" ", "a", "\\x01", "b", " ">>),
       image |-> Str(<<"https://", "GAME.example">>),
       url |-> Str(<<"https://", "game.example", "/a">>)])
EntryOther ==
  Obj([id |-> Str(<<"b">>), title |-> Str(<<"b">>),
       image |-> Str(<<"https://", "game.example", "/a">>),
       url |-> Str(<<"https://", "game.example", "/etc">>),
       enabled |-> Bool(FALSE)])
EntryNoTitle ==
  Obj([id |-> Str(<<"a">>),
       image |-> Str(<<"https://", "game.example", "/a">>),
       url |-> Str(<<"https://", "game.example", "/a">>)])
EntryScriptTitle ==
  Obj([id |-> Str(<<"a">>), title |-> Str(<<"a", "b", "<script>x</script>">>),
       image |-> Str(<<"https://", "game.example", "/a">>),
       url |-> Str(<<"https://", "game.example", "/a">>)])
EntryScriptId ==
  Obj([id |-> Str(<<"<script>x</script>">>), title |-> Str(<<"a">>),
       image |-> Str(<<"https://", "game.example", "/a">>),
       url |-> Str(<<"https://", "game.example", "/a">>)])
EntryHandlerReason ==
  Obj([id |-> Str(<<"a">>), title |-> Str(<<"a">>),
       image |-> Str(<<"https://", "game.example", "/a">>),
       url |-> Str(<<"https://", "game.example", "/a">>),
       enabled |-> Bool(FALSE),
       disabledReason |-> Str(<<"onclick=">>)])

\* entries whose urls are written with ".." segments or name a loopback host
EntryTraversal ==
  Obj([id |-> Str(<<"a">>), title |-> Str(<<"a">>),
       image |-> Str(<<"https://", "game.example", "/a">>),
       url |-> Str(<<"https://", "game.example", "/a", "/..", "/..", "/etc">>)])
EntryTraversalImage ==
  Obj([id |-> Str(<<"a">>), title |-> Str(<<"a">>),
       image |-> Str(<<"https://", "game.example", "/..", "/etc">>),
       url |-> Str(<<"https://", "game.example", "/a">>)])
EntryDotsInSegment ==
  Obj([id |-> Str(<<"a">>), title |-> Str(<<"a">>),
       image |-> Str(<<"https://", "game.example", "/a">>),
       url |-> Str(<<"https://", "game.example", "/x..y">>)])
EntryLoopback ==
  Obj([id |-> Str(<<"a">>), title |-> Str(<<"a">>),
       image |-> Str(<<"https://", "game.example", "/a">>),
       url |-> Str(<<"https://", "localhost", "/a">>)])
EntryLoopback127 ==
  Obj([id |-> Str(<<"a">>), title |-> Str(<<"a">>),
       image |-> Str(<<"http://", "127.0.0.1", "/a">>),
       url |-> Str(<<"https://", "game.example", "/a">>)])
EntryDataPath ==
  Obj([id |-> Str(<<"a">>), title |-> Str(<<"a">>),
       image |-> Str(<<"https://", "game.example", "/a">>),
       url |-> Str(<<"https://", "game.example", "/a", "/data:">>)])
EntryDataImage ==
  Obj([id |-> Str(<<"a">>), title |-> Str(<<"a">>),
       image |-> Str(<<"https://", "game.example", "/data:">>),
       url |-> Str(<<"https://", "game.example", "/a">>)])

Array(items) == [arr |-> TRUE, items |-> items]

PayloadNames ==
  {"plain", "empty", "partial", "scriptTitle", "scriptId", "handlerReason", "notArray"}

\* the value response.json() resolves to
PayloadOf(name) ==
  CASE name = "plain" -> Array(<<EntryPlain>>)
    [] name = "empty" -> Array(<<>>)
    [] name = "two" -> Array(<<EntryPlain, EntryOther>>)
    [] name = "partial" -> Array(<<EntryPlain, EntryNoTitle, EntryOther>>)
    [] name = "scriptTitle" -> Array(<<EntryScriptTitle>>)
    [] name = "scriptId" -> Array(<<EntryScriptId>>)
    [] name = "handlerReason" -> Array(<<EntryHandlerReason>>)
    [] name = "traversal" -> Array(<<EntryTraversal>>)
    [] name = "traversalImage" -> Array(<<EntryPlain, EntryTraversalImage>>)
    [] name = "dotsInSegment" -> Array(<<EntryDotsInSegment>>)
    [] name = "loopback" -> Array(<<EntryLoopback>>)
    [] name = "loopback127" -> Array(<<EntryOther, EntryLoopback127>>)
    [] name = "dataPath" -> Array(<<EntryDataPath>>)
    [] name = "dataImage" -> Array(<<EntryDataImage>>)
    [] OTHER -> [arr |-> FALSE, items |-> <<>>]

EtagHeaders == {NoItem, Item(<<"v1">>)}

\* what one fetchWithTimeout call ends in: a rejection (network error, or the
\* abort after REQUEST_TIMEOUT_MS) or a response
Rejected == [kind |-> "reject", status |-> 0, json |-> FALSE, etag |-> NoItem, body |-> "none"]
Response(status, json, etag, body) ==
  [kind |-> "response", status |-> status, json |-> json, etag |-> etag, body |-> body]

Responses ==
  {Rejected}
  \cup {Response(st, FALSE, NoItem, "none") : st \in {304, 404, 500}}
  \cup {Response(200, FALSE, NoItem, "plain")}              \* content-type is not JSON
  \cup {Response(200, TRUE, NoItem, "malformed")}           \* the body is not JSON
  \cup {Response(200, TRUE, e, b) : e \in EtagHeaders, b \in PayloadNames}

\* response.ok
ResponseOk(response) == response.status >= 200 /\ response.status <= 299

\* src/data/games.json as the service's tests provide it
gamesData ==
  << Obj([id |-> Str(<<"a">>), title |-> Str(<<"a", " ", "b">>),
          url |-> Str(<<"https://", "game.example", "/a">>),
          category |-> Str(<<"a">>)]) >>

(***************************************************************************)
(* remoteCatalogService                                                    *)
(***************************************************************************)
NoResult ==
  [status |-> "none", source |-> "none", games |-> <<>>, fromCache |-> FALSE,
   etag |-> NoItem, error |-> "none"]
Returned(source, games, fromCache, etag) ==
  [status |-> "returned", source |-> source, games |-> games, fromCache |-> fromCache,
   etag |-> etag, error |-> "none"]
Raised(error) ==
  [status |-> "raised", source |-> "none", games |-> <<>>, fromCache |-> FALSE,
   etag |-> NoItem, error |-> error]

\* variant of resolveWithoutFetch: a missing url is not handled ahead of the
\* try block
resolveWithoutFetchNoUrlBranch(config) ==
  IF Truthy(config.url) /\ ~isValidUrl(config.url.s)
    THEN [decided |-> TRUE, via |-> "invalidurl",
          result |-> IF config.fallbackToBundled
                       THEN Returned("bundled", gamesData, FALSE, NoItem)
                       ELSE Raised("Invalid remote catalog URL and fallback disabled")]
  ELSE [decided |-> FALSE, via |-> "fetch", result |-> NoResult]

\* variant of resolveWithoutFetch: the bundled catalog is returned as the
\* validator leaves it
resolveWithoutFetchSanitized(config) ==
  LET bundled == validateCatalog(Array(gamesData),
                   [xss |-> [i \in 1..Len(XSS_PATTERNS) |-> 0],
                    url |-> [i \in 1..Len(DANGEROUS_URL_PATTERNS) |-> 0]]).sanitizedData
  IN IF ~Truthy(config.url)
       THEN [decided |-> TRUE, via |-> "nourl",
             result |-> Returned("bundled", bundled, FALSE, NoItem)]
     ELSE IF ~isValidUrl(config.url.s)
       THEN [decided |-> TRUE, via |-> "invalidurl",
             result |-> IF config.fallbackToBundled
                          THEN Returned("bundled", bundled, FALSE, NoItem)
                          ELSE Raised("Invalid remote catalog URL and fallback disabled")]
     ELSE [decided |-> FALSE, via |-> "fetch", result |-> NoResult]

\* fetchCatalog up to the try block: the result when the call ends there
resolveWithoutFetch(config) ==
  IF ~Truthy(config.url)
    THEN [decided |-> TRUE, via |-> "nourl",
          result |-> Returned("bundled", gamesData, FALSE, NoItem)]
  ELSE IF ~isValidUrl(config.url.s)
    THEN [decided |-> TRUE, via |-> "invalidurl",
          result |-> IF config.fallbackToBundled
                       THEN Returned("bundled", gamesData, FALSE, NoItem)
                       ELSE Raised("Invalid remote catalog URL and fallback disabled")]
  ELSE [decided |-> FALSE, via |-> "fetch", result |-> NoResult]

\* variant of fetchAttempt: a 304 is handled as any other status that is not ok
fetchAttemptNo304(response, validated, store, t, regex, fails) ==
  LET Throw(e) ==
        [returns |-> FALSE, error |-> e, games |-> <<>>, store |-> store, rx |-> regex,
         ops |-> {}, notModified |-> FALSE]
      newEtag == response.etag
      w1 == IF newEtag.has /\ Len(newEtag.v) > 0
              THEN setItem(store, REMOTE_CATALOG_ETAG_KEY, newEtag.v, fails)
              ELSE [store |-> store, ops |-> {}]
      w2 == setItem(w1.store, REMOTE_CATALOG_LAST_FETCH_KEY, NumberToString(t), fails)
  IN IF response.kind = "reject" THEN Throw("fetch rejected")
     ELSE IF ~ResponseOk(response) THEN Throw("HTTP status")
     ELSE IF ~response.json THEN Throw("Response is not JSON")
     ELSE IF response.body = "malformed" THEN Throw("json() rejected")
     ELSE IF ~validated.ok
       THEN [Throw("Remote catalog failed schema validation") EXCEPT !.rx = validated.rx]
     ELSE [returns |-> TRUE, error |-> "none", games |-> validated.games,
           store |-> w2.store, rx |-> validated.rx, ops |-> w1.ops \cup w2.ops,
           notModified |-> FALSE]

\* one iteration of the try block of fetchRemoteCatalogWithRetry, for the
\* response the attempt received;
\* validated is validateGameSchema(rawGames) with the regex state it leaves
fetchAttempt(response, validated, store, t, regex, fails) ==
  LET Throw(e, st, r, ops) ==
        [returns |-> FALSE, error |-> e, games |-> <<>>, store |-> st, rx |-> r,
         ops |-> ops, notModified |-> FALSE]
  IN IF response.kind = "reject" THEN Throw("fetch rejected", store, regex, {})
     ELSE IF response.status = 304 THEN
       The({ IF cached.games.ok
               THEN [returns |-> TRUE, error |-> "none", games |-> cached.games.games,
                     store |-> cached.store, rx |-> regex, ops |-> cached.ops,
                     notModified |-> TRUE]
               ELSE Throw("304 response but no cached games available",
                          cached.store, regex, cached.ops)
             : cached \in {getCachedGames(store, t, fails)} })
     ELSE IF ~ResponseOk(response) THEN Throw("HTTP status", store, regex, {})
     ELSE IF ~response.json THEN Throw("Response is not JSON", store, regex, {})
     ELSE IF response.body = "malformed" THEN Throw("json() rejected", store, regex, {})
     ELSE
       LET newEtag == response.etag
           w1 == IF newEtag.has /\ Len(newEtag.v) > 0
                   THEN setItem(store, REMOTE_CATALOG_ETAG_KEY, newEtag.v, fails)
                   ELSE [store |-> store, ops |-> {}]
           w2 == setItem(w1.store, REMOTE_CATALOG_LAST_FETCH_KEY, NumberToString(t), fails)
       IN IF ~validated.ok
            THEN Throw("Remote catalog failed schema validation", store, validated.rx, {})
            ELSE [returns |-> TRUE, error |-> "none", games |-> validated.games,
                  store |-> w2.store, rx |-> validated.rx, ops |-> w1.ops \cup w2.ops,
                  notModified |-> FALSE]

\* variant of requestHeaders: no request is conditional
requestHeadersUnconditional(etag) == NoItem

\* the If-None-Match header of the request of an attempt (NoItem: the header
\* is absent); etag is `storedEtag || undefined`
requestHeaders(etag) ==
  IF etag.has /\ Len(etag.v) > 0 THEN Item(etag.v) ELSE NoItem

\* variant of retries: the loop allows one attempt more
retriesOnceMore(attempt, error) == attempt <= MAX_RETRY_ATTEMPTS

\* the catch block of the retry loop: another attempt follows a failed one
\* while attempt < MAX_RETRY_ATTEMPTS
retries(attempt, error) == attempt < MAX_RETRY_ATTEMPTS

\* the outer catch of fetchCatalog
outerCatch(fallbackToBundled, error) ==
  IF fallbackToBundled THEN Returned("bundled", gamesData, FALSE, NoItem)
  ELSE Raised(error)

\* variant of fallback: the bundled catalog is tried ahead of the cache
fallbackBundledFirst(cachedGames, fallbackToBundled, remoteError) ==
  IF fallbackToBundled
    THEN Returned("bundled", gamesData, FALSE, NoItem)
  ELSE IF cachedGames.ok /\ Len(cachedGames.games) > 0
    THEN Returned("cached", cachedGames.games, TRUE, NoItem)
  ELSE outerCatch(fallbackToBundled, remoteError)

\* variant of fallback: the cached catalog is not consulted
fallbackIgnoresCache(cachedGames, fallbackToBundled, remoteError) ==
  IF fallbackToBundled
    THEN Returned("bundled", gamesData, FALSE, NoItem)
  ELSE outerCatch(fallbackToBundled, remoteError)

\* the inner catch of fetchCatalog
fallback(cachedGames, fallbackToBundled, remoteError) ==
  IF cachedGames.ok /\ Len(cachedGames.games) > 0
    THEN Returned("cached", cachedGames.games, TRUE, NoItem)
  ELSE IF fallbackToBundled
    THEN Returned("bundled", gamesData, FALSE, NoItem)
  ELSE outerCatch(fallbackToBundled, remoteError)

\* the result of a successful remote stage
remoteResult(remoteGames, storedEtag) ==
  Returned("remote", remoteGames, FALSE, storedEtag)

(***************************************************************************)
(* favoritesService                                                        *)
(***************************************************************************)
\* the ids of the games of the catalog
GameIds == {"a", "b"}

\* the item under FAVORITES_KEY: the ids of the favorites persisted
NoFavorites == [has |-> FALSE, ids |-> {}]
Favorites(ids) == [has |-> TRUE, ids |-> ids]

\* what a storage operation of the favorites service ends in: it succeeds,
\* it fails and storageService swallows the failure, or it rejects
StorageOutcomes == {"ok", "absorbed", "rejects"}

\* no favorites operation has been called
NoOperation ==
  [op |-> "none", game |-> "none", returned |-> FALSE, allowed |-> FALSE,
   storageOk |-> FALSE, initializedBefore |-> FALSE, favoritesBefore |-> {},
   persistedBefore |-> {}, again |-> FALSE, memberBeforePrevious |-> FALSE]

\* a new FavoritesService in a process that finds the given item in storage;
\* allowed is privacyService.isFavoritesAllowed()
FavoritesAtStart(persisted, allowed) ==
  [initialized |-> FALSE, favorites |-> {}, persisted |-> persisted,
   allowed |-> allowed, last |-> NoOperation]

\* entries written by persistFavorites pass validateFavoriteStructure
loadStoredFavorites(fs, load) ==
  IF load = "rejects" THEN [fs EXCEPT !.persisted = NoFavorites]
  ELSE IF load = "ok" /\ fs.persisted.has
    THEN [fs EXCEPT !.favorites = @ \cup fs.persisted.ids]
  ELSE fs

initialize(fs, load) ==
  IF fs.initialized THEN fs
  ELSE IF ~fs.allowed THEN [fs EXCEPT !.initialized = TRUE]
  ELSE [loadStoredFavorites(fs, load) EXCEPT !.initialized = TRUE]

isFavorite(fs, gameId) == gameId \in fs.favorites

\* threw: the error of setItem is logged and thrown again
persistFavorites(fs, persist) ==
  IF persist = "ok"
    THEN [fs |-> [fs EXCEPT !.persisted = Favorites(fs.favorites)], threw |-> FALSE]
    ELSE [fs |-> fs, threw |-> persist = "rejects"]

addFavorite(fs, gameId, load, persist) ==
  LET f1 == IF ~fs.initialized THEN initialize(fs, load) ELSE fs
      p == persistFavorites([f1 EXCEPT !.favorites = @ \cup {gameId}], persist)
  IN IF ~f1.allowed THEN [fs |-> f1, returned |-> FALSE]
     ELSE [fs |-> p.fs, returned |-> ~p.threw]

removeFavorite(fs, gameId, load, persist) ==
  LET f1 == IF ~fs.initialized THEN initialize(fs, load) ELSE fs
      p == persistFavorites([f1 EXCEPT !.favorites = @ \ {gameId}], persist)
  IN IF gameId \notin f1.favorites THEN [fs |-> f1, returned |-> FALSE]
     ELSE [fs |-> p.fs, returned |-> ~p.threw]

toggleFavorite(fs, gameId, load, persist) ==
  IF isFavorite(fs, gameId)
    THEN removeFavorite(fs, gameId, load, persist)
    ELSE addFavorite(fs, gameId, load, persist)

(***************************************************************************)
(* imageCacheService                                                       *)
(***************************************************************************)
MAX_CONCURRENT_DOWNLOADS == 3
PREFETCH_BATCH_SIZE == 5
DefaultMaxImages == 20

\* the images of the games of the catalog, in catalog order
CatalogImages == <<"i1", "i2", "i3", "i4", "i5", "i6">>
Images == {CatalogImages[i] : i \in 1..Len(CatalogImages)}

\* the jobs prefetchImages builds for games (a sequence of images) when the
\* game with image favorite is a favorite: the images not cached, priority 1
\* ahead of priority 3 (the sort is stable), at most maxImages of them
prefetchJobs(cache, games, favorite, maxImages) ==
  LET notCached == SelectSeq(games, LAMBDA u : u \notin cache)
      sorted == SelectSeq(notCached, LAMBDA u : u = favorite)
                  \o SelectSeq(notCached, LAMBDA u : u # favorite)
  IN SubSeq(sorted, 1, IF Len(sorted) < maxImages THEN Len(sorted) ELSE maxImages)

\* downloadImage(url) up to its first await: the download starts unless the
\* url is being downloaded or MAX_CONCURRENT_DOWNLOADS downloads are active
downloadImageStarts(activeDownloads, url) ==
  /\ url \notin activeDownloads
  /\ Cardinality(activeDownloads) < MAX_CONCURRENT_DOWNLOADS

\* batch.map(async job => cacheImage(job.imageUrl)) up to the await of
\* Promise.all: the jobs of the batch in order, each up to its first await
RECURSIVE startDownloads(_, _)
startDownloads(ics, batch) ==
  IF batch = <<>> THEN ics
  ELSE LET url == Head(batch)
       IN IF url \in ics.cache THEN startDownloads(ics, Tail(batch))
          ELSE IF downloadImageStarts(ics.activeDownloads, url)
            THEN startDownloads(
                   [ics EXCEPT !.activeDownloads = @ \cup {url},
                               !.awaiting = @ \cup {url}],
                   Tail(batch))
          ELSE startDownloads(ics, Tail(batch))

\* one iteration of the while loop of processPrefetchQueue up to the await
\* of Promise.all: prefetchQueue.splice(0, PREFETCH_BATCH_SIZE) and the start
\* of the downloads of the batch
startBatch(ics) ==
  LET n == IF Len(ics.prefetchQueue) < PREFETCH_BATCH_SIZE
             THEN Len(ics.prefetchQueue) ELSE PREFETCH_BATCH_SIZE
      batch == SubSeq(ics.prefetchQueue, 1, n)
      rest == SubSeq(ics.prefetchQueue, n + 1, Len(ics.prefetchQueue))
  IN [startDownloads([ics EXCEPT !.prefetchQueue = rest], batch) EXCEPT !.pc = "batch"]

\* prefetchImages(games, options) up to its first await; conditions are the
\* network and privacy checks
prefetchImages(ics, games, favorite, conditions) ==
  LET jobsToProcess == prefetchJobs(ics.cache, games, favorite, DefaultMaxImages)
  IN IF ~ics.initialized \/ ~conditions \/ jobsToProcess = <<>> THEN ics
     ELSE startBatch([ics EXCEPT
            !.prefetchQueue = @ \o jobsToProcess,
            !.queued = @ \cup {jobsToProcess[i] : i \in 1..Len(jobsToProcess)}])

(***************************************************************************)
(* State                                                                   *)
(***************************************************************************)
\* validateCatalog has not been called
NoValidation ==
  [input |-> "none", before |-> "none", isValid |-> FALSE, sanitizedData |-> <<>>]

\* the favorites service is not in use
FavoritesIdle == FavoritesAtStart(NoFavorites, FALSE)

\* the image cache is not in use: the fields of ImageCacheService at
\* construction; awaiting are the downloads the Promise.all of the current
\* batch waits for, queued the images prefetchImages has placed in the queue
ImageCacheIdle ==
  [initialized |-> FALSE, cache |-> {}, prefetchQueue |-> <<>>,
   activeDownloads |-> {}, saving |-> {}, awaiting |-> {}, pc |-> "idle",
   queued |-> {}]

VARIABLES
  store,       \* AsyncStorage: key -> item
  rx,          \* lastIndex of the validator's regular expressions
  now,         \* Date.now(), in hours
  calls,       \* the fetchCatalog call of each caller
  failures,    \* number of storage operations that rejected
  blobOrigin,  \* the response body whose validated catalog was cached last
  validation,          \* the last call of schemaValidator.validateCatalog
  favoritesService,    \* FavoritesService and the favorites it persisted
  imageCacheService    \* ImageCacheService and its prefetch

\* the services next to the catalog pipeline
otherServices == <<validation, favoritesService, imageCacheService>>

vars == <<store, rx, now, calls, failures, blobOrigin, otherServices>>

IdleCall ==
  [pc |-> "idle",
   config |-> [url |-> Absent, fallbackToBundled |-> FALSE],
   cachedGames |-> NoGames, storedEtag |-> NoItem,
   attempt |-> 0, remoteGames |-> <<>>, lastError |-> "none",
   result |-> NoResult, via |-> "none",
   httpCount |-> 0, delays |-> 0, storageOps |-> 0,
   cache304 |-> NoGames, served |-> "none", servedEtag |-> NoItem,
   rejected |-> "none", overlapped |-> FALSE,
   origin |-> "none", wroteLast |-> FALSE,
   cachedStamp |-> 0, cachedAge |-> 0,
   storeBefore |-> [k \in CatalogKeys |-> NoItem],
   etagAtRead |-> NoItem, ifNoneMatch |-> NoItem]

Init ==
  /\ store = [k \in CatalogKeys |-> NoItem]
  /\ rx = [xss |-> [i \in 1..Len(XSS_PATTERNS) |-> 0],
           url |-> [i \in 1..Len(DANGEROUS_URL_PATTERNS) |-> 0]]
  /\ now = 0
  /\ calls = [c \in Calls |-> IdleCall]
  /\ failures = 0
  /\ blobOrigin = "none"
  /\ validation = NoValidation
  /\ favoritesService = FavoritesIdle
  /\ imageCacheService = ImageCacheIdle

\* the sets of storage operations that may reject in one step
FailureSets(ops) ==
  {fs \in SUBSET ops : failures + Cardinality(fs) <= MaxStorageFailures}

\* the storage operations getCachedGames, cacheGames and clearRemoteCache can
\* issue, and those one attempt can issue for a response
CacheReadOps ==
  {Get(GAMES_CACHE_KEY), Get(CACHE_TIMESTAMP_KEY),
   Remove(GAMES_CACHE_KEY), Remove(CACHE_TIMESTAMP_KEY)}
CacheWriteOps == {Set(GAMES_CACHE_KEY), Set(CACHE_TIMESTAMP_KEY)}
ClearOps ==
  {Remove(REMOTE_CATALOG_ETAG_KEY), Remove(REMOTE_CATALOG_LAST_FETCH_KEY),
   Remove(GAMES_CACHE_KEY), Remove(CACHE_TIMESTAMP_KEY)}
AttemptOps(response) ==
  IF response.kind = "reject" THEN {}
  ELSE IF response.status = 304 THEN CacheReadOps
  ELSE IF response.status = 200 /\ response.json /\ response.body # "malformed"
    THEN {Set(REMOTE_CATALOG_ETAG_KEY), Set(REMOTE_CATALOG_LAST_FETCH_KEY)}
  ELSE {}

\* the cached catalog a call starting now would read
CacheNow == getCachedGames(store, now, {}).games

\* the call of c is between its first and its last storage or network
\* operation
InFlight(c) == calls[c].pc \notin {"idle", "done"}

\* no call has a result its caller has not taken yet
NoneDone == \A c \in Calls : calls[c].pc # "done"

(***************************************************************************)
(* fetchCatalog, step by step                                              *)
(***************************************************************************)
\* fetchCatalog(config) is called: lines up to the try block
FetchCatalogStart(c, url, fallbackToBundled) ==
  /\ calls[c].pc = "idle"
  /\ \E config \in {[url |-> url, fallbackToBundled |-> fallbackToBundled]} :
     \E r \in {resolveWithoutFetch(config)} :
     \E others \in {{d \in Calls \ {c} : InFlight(d)}} :
       calls' = [d \in Calls |->
          IF d = c
            THEN [IdleCall EXCEPT
                    !.config = config,
                    !.storeBefore = store,
                    !.pc = IF r.decided THEN "done" ELSE "getCachedGames",
                    !.via = r.via,
                    !.result = r.result,
                    !.overlapped = ~r.decided /\ others # {}]
          ELSE IF d \in others /\ ~r.decided
            THEN [calls[d] EXCEPT !.overlapped = TRUE]
          ELSE calls[d]]
  /\ UNCHANGED <<otherServices, store, rx, now, failures, blobOrigin>>

\* const cachedGames = await storageService.getCachedGames()
GetCachedGames(c) ==
  /\ calls[c].pc = "getCachedGames"
  /\ \E fails \in FailureSets(CacheReadOps) :
       \E r \in {getCachedGames(store, now, fails)} :
          /\ fails \subseteq r.ops
          /\ store' = r.store
          /\ failures' = failures + Cardinality(fails)
          /\ calls' = [calls EXCEPT
               ![c].cachedGames = r.games,
               ![c].cachedStamp = IF r.games.ok
                                    THEN parseInt(store[CACHE_TIMESTAMP_KEY].v) ELSE 0,
               ![c].cachedAge = IF r.games.ok
                                  THEN now - parseInt(store[CACHE_TIMESTAMP_KEY].v)
                                  ELSE 0,
               ![c].storageOps = @ + Cardinality(r.ops),
               ![c].pc = "getStoredEtag"]
  /\ UNCHANGED <<otherServices, rx, now, blobOrigin>>

\* const storedEtag = await storageService.getItem(REMOTE_CATALOG_ETAG_KEY)
GetStoredEtag(c) ==
  /\ calls[c].pc = "getStoredEtag"
  /\ \E fails \in FailureSets({Get(REMOTE_CATALOG_ETAG_KEY)}) :
       \E r \in {getItem(store, REMOTE_CATALOG_ETAG_KEY, fails)} :
          /\ fails \subseteq r.ops
          /\ failures' = failures + Cardinality(fails)
          /\ calls' = [calls EXCEPT ![c].storedEtag = r.value,
                                    ![c].etagAtRead = store[REMOTE_CATALOG_ETAG_KEY],
                                    ![c].storageOps = @ + Cardinality(r.ops),
                                    ![c].attempt = 1,
                                    ![c].pc = "attempt"]
  /\ UNCHANGED <<otherServices, store, rx, now, blobOrigin>>

\* one attempt of fetchRemoteCatalogWithRetry for the response it receives:
\* the request, the handling of the response and, after a failure, the delay
\* before the next attempt;
\* lastError is read only once the loop is over, so the error of an attempt
\* that is retried is not kept
AttemptResponse(c, response, validated) ==
  /\ calls[c].pc = "attempt"
  /\ \E fails \in FailureSets(AttemptOps(response)) :
          \E a \in {fetchAttempt(response, validated, store, now, rx, fails)} :
          \E retry \in {retries(calls[c].attempt, a.error)} :
               /\ fails \subseteq a.ops
               /\ store' = a.store
               /\ rx' = a.rx
               /\ failures' = failures + Cardinality(fails)
               /\ calls' = [calls EXCEPT ![c] =
                    [@ EXCEPT
                       !.httpCount = @ + 1,
                       !.ifNoneMatch = requestHeaders(calls[c].storedEtag),
                       !.storageOps = @ + Cardinality(a.ops),
                       !.lastError = IF ~a.returns /\ retry THEN "none" ELSE a.error,
                       !.remoteGames = a.games,
                       !.served = IF a.returns /\ ~a.notModified
                                    THEN response.body ELSE "none",
                       !.servedEtag = IF a.returns /\ ~a.notModified
                                        THEN response.etag ELSE NoItem,
                       !.origin = IF ~a.returns THEN "none"
                                    ELSE IF a.notModified THEN blobOrigin
                                    ELSE response.body,
                       !.rejected = IF a.error = "Remote catalog failed schema validation"
                                         /\ ~retry
                                      THEN response.body ELSE "none",
                       !.cache304 = IF response.status = 304 /\ fails = {}
                                      THEN CacheNow ELSE NoGames,
                       !.via = IF a.returns
                                 THEN (IF a.notModified THEN "remote304" ELSE "remote200")
                                 ELSE "fallback",
                       !.delays = IF ~a.returns /\ retry THEN @ + 1 ELSE @,
                       !.attempt = IF ~a.returns /\ retry THEN @ + 1 ELSE @,
                       !.pc = IF a.returns THEN "cacheGames"
                              ELSE IF retry THEN "attempt" ELSE "fallback"]]
  /\ UNCHANGED <<otherServices, now, blobOrigin>>

\* the attempt of a call when its request ends in the given response
AttemptOn(c, response) ==
  AttemptResponse(c, response, validateGameSchema(PayloadOf(response.body), rx))

\* the attempt of a call, for each response the request can end in
Attempt(c) ==
  /\ calls[c].pc = "attempt"
  /\ \E body \in PayloadNames \cup {"none", "malformed"} :
       \E validated \in {validateGameSchema(PayloadOf(body), rx)} :
          \E response \in {r \in Responses : r.body = body} :
            AttemptResponse(c, response, validated)

\* the request of an attempt is answered with the headers of a 200 JSON
\* response and the body never arrives: fetchWithTimeout has cleared its timer
\* and returned the response, and `await response.json()` stays pending
AttemptStalls(c) ==
  /\ calls[c].pc = "attempt"
  /\ calls' = [calls EXCEPT
       ![c].httpCount = @ + 1,
       ![c].ifNoneMatch = requestHeaders(calls[c].storedEtag),
       ![c].pc = "json"]
  /\ UNCHANGED <<otherServices, store, rx, now, failures, blobOrigin>>

\* await storageService.cacheGames(remoteGames); return { source: 'remote' }
CacheAndReturn(c) ==
  /\ calls[c].pc = "cacheGames"
  /\ \E fails \in FailureSets(CacheWriteOps) :
       \E w \in {cacheGames(store, calls[c].remoteGames, now, fails)} :
          /\ fails \subseteq w.ops
          /\ store' = w.store
          /\ failures' = failures + Cardinality(fails)
          /\ blobOrigin' = IF Set(GAMES_CACHE_KEY) \in fails
                             THEN blobOrigin ELSE calls[c].origin
          /\ calls' = [d \in Calls |->
               IF d = c
                 THEN [calls[c] EXCEPT
                         !.storageOps = @ + Cardinality(w.ops),
                         !.result = remoteResult(calls[c].remoteGames,
                                                 calls[c].storedEtag),
                         !.wroteLast = Set(GAMES_CACHE_KEY) \notin fails,
                         !.pc = "done"]
               ELSE IF Set(GAMES_CACHE_KEY) \in fails THEN calls[d]
               ELSE [calls[d] EXCEPT !.wroteLast = FALSE]]
  /\ UNCHANGED <<otherServices, rx, now>>

\* catch (remoteError): the fallback chain
Fallback(c) ==
  /\ calls[c].pc = "fallback"
  /\ calls' = [calls EXCEPT
       ![c].result = fallback(calls[c].cachedGames, calls[c].config.fallbackToBundled,
                              calls[c].lastError),
       ![c].pc = "done"]
  /\ UNCHANGED <<otherServices, store, rx, now, failures, blobOrigin>>

\* the caller takes the result (or the error) of its call
TakeResult(c) ==
  /\ calls[c].pc = "done"
  /\ calls' = [calls EXCEPT ![c] = IdleCall]
  /\ UNCHANGED <<otherServices, store, rx, now, failures, blobOrigin>>

\* remoteCatalogService.clearRemoteCache, called by loadGames(true) before it
\* calls fetchCatalog
ClearRemoteCache ==
  /\ \A c \in Calls : calls[c].pc = "idle"
  /\ \E fails \in FailureSets(ClearOps) :
       \E r1 \in {removeItem(store, REMOTE_CATALOG_ETAG_KEY, fails)} :
       \E r2 \in {removeItem(r1.store, REMOTE_CATALOG_LAST_FETCH_KEY, fails)} :
       \E r3 \in {clearCache(r2.store, fails)} :
          /\ fails \subseteq r1.ops \cup r2.ops \cup r3.ops
          /\ store' = r3.store
          /\ store' # store
          /\ failures' = failures + Cardinality(fails)
          /\ blobOrigin' = IF r3.store[GAMES_CACHE_KEY].has THEN blobOrigin ELSE "none"
  /\ UNCHANGED <<otherServices, rx, now, calls>>

\* time passes
Tick ==
  /\ NoneDone
  /\ \E d \in TickSteps : now + d <= MaxNow /\ now' = now + d
  /\ UNCHANGED <<otherServices, store, rx, calls, failures, blobOrigin>>

\* one caller at a time
Next ==
  \/ \E url \in ConfigUrls, fb \in BOOLEAN : FetchCatalogStart("launch", url, fb)
  \/ GetCachedGames("launch")
  \/ GetStoredEtag("launch")
  \/ Attempt("launch")
  \/ AttemptStalls("launch")
  \/ CacheAndReturn("launch")
  \/ Fallback("launch")
  \/ TakeResult("launch")
  \/ ClearRemoteCache
  \/ Tick

Spec == Init /\ [][Next]_vars

\* the steps of the call of c: each is the continuation of an await, which the
\* event loop runs once the awaited promise has settled
CallStep(c) ==
  \/ GetCachedGames(c)
  \/ GetStoredEtag(c)
  \/ Attempt(c)
  \/ AttemptStalls(c)
  \/ CacheAndReturn(c)
  \/ Fallback(c)


(***************************************************************************)
(* Two callers: the fetch at launch and a refresh, in any interleaving     *)
(***************************************************************************)
\* the responses of the two-caller specification: a rejected request, two
\* valid catalogs that differ, and a 304
OverlapResponses ==
  {Rejected,
   Response(304, FALSE, NoItem, "none"),
   Response(200, TRUE, Item(<<"v1">>), "plain"),
   Response(200, TRUE, NoItem, "two")}

\* storage does not reject in the two-caller specification
InitOverlap ==
  /\ store = [k \in CatalogKeys |-> NoItem]
  /\ rx = [xss |-> [i \in 1..Len(XSS_PATTERNS) |-> 0],
           url |-> [i \in 1..Len(DANGEROUS_URL_PATTERNS) |-> 0]]
  /\ now = 0
  /\ calls = [c \in Calls |-> IdleCall]
  /\ failures = MaxStorageFailures
  /\ blobOrigin = "none"
  /\ validation = NoValidation
  /\ favoritesService = FavoritesIdle
  /\ imageCacheService = ImageCacheIdle

\* both callers take the results of their calls
TakeResults ==
  /\ \A c \in Calls : calls[c].pc = "done"
  /\ calls' = [c \in Calls |-> IdleCall]
  /\ UNCHANGED <<otherServices, store, rx, now, failures, blobOrigin>>

NextOverlap ==
  \/ \E c \in Calls, fb \in BOOLEAN : FetchCatalogStart(c, GoodUrl, fb)
  \/ \E c \in Calls : GetCachedGames(c)
  \/ \E c \in Calls : GetStoredEtag(c)
  \/ \E c \in Calls, r \in OverlapResponses : AttemptOn(c, r)
  \/ \E c \in Calls : CacheAndReturn(c)
  \/ \E c \in Calls : Fallback(c)
  \/ TakeResults

SpecOverlap == InitOverlap /\ [][NextOverlap]_vars

(***************************************************************************)
(* One caller whose call always gets to run: calls with a valid url, one   *)
(* after the other, while storage works                                    *)
(***************************************************************************)
NextCall ==
  \/ \E fb \in BOOLEAN : FetchCatalogStart("launch", GoodUrl, fb)
  \/ GetCachedGames("launch")
  \/ GetStoredEtag("launch")
  \/ Attempt("launch")
  \/ AttemptStalls("launch")
  \/ CacheAndReturn("launch")
  \/ Fallback("launch")
  \/ TakeResult("launch")

\* a call that can take a step does take one
SpecFair == InitOverlap /\ [][NextCall]_vars /\ WF_vars(CallStep("launch"))

(***************************************************************************)
(* The validator on its own: validateCatalog called again and again        *)
(***************************************************************************)
\* the raw catalogs handed to validateCatalog
ValidatorInputs ==
  PayloadNames \cup {"two", "traversal", "traversalImage", "dotsInSegment",
                     "loopback", "loopback127", "dataPath", "dataImage"}

\* schemaValidator.validateCatalog(catalogData) on the validator singleton;
\* before is the input of the call that preceded this one
ValidateCatalog(input) ==
  /\ \E r \in {validateCatalog(PayloadOf(input), rx)} :
       /\ rx' = r.rx
       /\ validation' = [input |-> input, before |-> validation.input,
                         isValid |-> r.isValid, sanitizedData |-> r.sanitizedData]
  /\ UNCHANGED <<store, now, calls, failures, blobOrigin, favoritesService,
                 imageCacheService>>

NextValidator == \E input \in ValidatorInputs : ValidateCatalog(input)

SpecValidator == Init /\ [][NextValidator]_vars

(***************************************************************************)
(* The favorites service: its operations one after the other               *)
(***************************************************************************)
InitFavorites ==
  /\ store = [k \in CatalogKeys |-> NoItem]
  /\ rx = [xss |-> [i \in 1..Len(XSS_PATTERNS) |-> 0],
           url |-> [i \in 1..Len(DANGEROUS_URL_PATTERNS) |-> 0]]
  /\ now = 0
  /\ calls = [c \in Calls |-> IdleCall]
  /\ failures = 0
  /\ blobOrigin = "none"
  /\ validation = NoValidation
  /\ \E ids \in SUBSET GameIds, has \in BOOLEAN, allowed \in BOOLEAN :
       favoritesService =
         FavoritesAtStart(IF has THEN Favorites(ids) ELSE NoFavorites, allowed)
  /\ imageCacheService = ImageCacheIdle

\* the record of an operation: what it was called with and what held before
Operation(op, gameId, r, load, persist) ==
  LET fs == favoritesService
      samePrevious == /\ fs.last.op = "toggle" /\ op = "toggle"
                      /\ fs.last.game = gameId
                      /\ fs.last.allowed /\ fs.last.storageOk
                      /\ fs.last.returned
  IN [op |-> op, game |-> gameId, returned |-> r.returned, allowed |-> fs.allowed,
      storageOk |-> load = "ok" /\ persist = "ok",
      initializedBefore |-> fs.initialized,
      favoritesBefore |-> fs.favorites,
      persistedBefore |-> fs.persisted.ids,
      again |-> samePrevious,
      memberBeforePrevious |->
        samePrevious /\
          (IF fs.last.initializedBefore
             THEN gameId \in fs.last.favoritesBefore
             ELSE gameId \in fs.last.persistedBefore)]

Called(op, gameId, r, load, persist) ==
  /\ favoritesService' =
       [r.fs EXCEPT !.last = Operation(op, gameId, r, load, persist)]
  /\ UNCHANGED <<store, rx, now, calls, failures, blobOrigin, validation,
                 imageCacheService>>

\* favoritesService.initialize(), called when the game list is mounted
Initialize ==
  /\ ~favoritesService.initialized
  /\ \E load \in StorageOutcomes :
       favoritesService' = initialize(favoritesService, load)
  /\ UNCHANGED <<store, rx, now, calls, failures, blobOrigin, validation,
                 imageCacheService>>

AddFavorite(gameId) ==
  \E load \in StorageOutcomes, persist \in StorageOutcomes :
    Called("add", gameId, addFavorite(favoritesService, gameId, load, persist),
           load, persist)

RemoveFavorite(gameId) ==
  \E load \in StorageOutcomes, persist \in StorageOutcomes :
    Called("remove", gameId, removeFavorite(favoritesService, gameId, load, persist),
           load, persist)

ToggleFavorite(gameId) ==
  \E load \in StorageOutcomes, persist \in StorageOutcomes :
    Called("toggle", gameId, toggleFavorite(favoritesService, gameId, load, persist),
           load, persist)

\* the user changes the privacy settings
SetFavoritesAllowed(allowed) ==
  /\ favoritesService.allowed # allowed
  /\ favoritesService' = [favoritesService EXCEPT !.allowed = allowed]
  /\ UNCHANGED <<store, rx, now, calls, failures, blobOrigin, validation,
                 imageCacheService>>

\* the app is started again: a new service object, the same storage
Restart ==
  /\ favoritesService.initialized
  /\ favoritesService' =
       FavoritesAtStart(favoritesService.persisted, favoritesService.allowed)
  /\ UNCHANGED <<store, rx, now, calls, failures, blobOrigin, validation,
                 imageCacheService>>

NextFavorites ==
  \/ Initialize
  \/ \E g \in GameIds : AddFavorite(g)
  \/ \E g \in GameIds : RemoveFavorite(g)
  \/ \E g \in GameIds : ToggleFavorite(g)
  \/ \E allowed \in BOOLEAN : SetFavoritesAllowed(allowed)
  \/ Restart

SpecFavorites == InitFavorites /\ [][NextFavorites]_vars

(***************************************************************************)
(* The image cache: prefetches one after the other                         *)
(***************************************************************************)
\* the lists of games prefetchImages is called with: the catalog, or the
\* games of one of its categories
GameLists ==
  { SelectSeq(CatalogImages, LAMBDA u : u \in S) :
      S \in {Images, {"i1", "i2", "i3", "i4"}, {"i1", "i2", "i3"}, {"i5", "i6"}, {"i4"}} }

otherThanImages ==
  <<store, rx, now, calls, failures, blobOrigin, validation, favoritesService>>

InitializeImageCache ==
  /\ ~imageCacheService.initialized
  /\ imageCacheService' = [imageCacheService EXCEPT !.initialized = TRUE]
  /\ UNCHANGED otherThanImages

\* prefetchImages is called while no prefetch is running
PrefetchImages(games, favorite, conditions) ==
  /\ imageCacheService.pc = "idle"
  /\ imageCacheService' = prefetchImages(imageCacheService, games, favorite, conditions)
  /\ UNCHANGED otherThanImages

\* the simulated download of url is over: the image is added to the cache
\* and the metadata is being saved
DownloadCompletes(url) ==
  /\ url \in imageCacheService.activeDownloads \ imageCacheService.saving
  /\ imageCacheService' = [imageCacheService EXCEPT !.cache = @ \cup {url},
                                                    !.saving = @ \cup {url}]
  /\ UNCHANGED otherThanImages

\* the metadata is saved: downloadImage returns, finally removes the url from
\* activeDownloads, and cacheImage resolves
DownloadReturns(url) ==
  /\ url \in imageCacheService.saving
  /\ imageCacheService' = [imageCacheService EXCEPT !.saving = @ \ {url},
                                                    !.activeDownloads = @ \ {url},
                                                    !.awaiting = @ \ {url}]
  /\ UNCHANGED otherThanImages

\* Promise.all of the batch has resolved: the loop goes on to the delay
\* between batches, or ends when the queue is empty
BatchDone ==
  /\ imageCacheService.pc = "batch"
  /\ imageCacheService.awaiting = {}
  /\ imageCacheService' =
       [imageCacheService EXCEPT
          !.pc = IF Len(imageCacheService.prefetchQueue) > 0 THEN "delay" ELSE "idle"]
  /\ UNCHANGED otherThanImages

\* the delay between batches is over: the next batch
NextBatch ==
  /\ imageCacheService.pc = "delay"
  /\ imageCacheService' = startBatch(imageCacheService)
  /\ UNCHANGED otherThanImages

NextPrefetch ==
  \/ InitializeImageCache
  \/ \E games \in GameLists, favorite \in {"none", "i4", "i6"}, conditions \in BOOLEAN :
       PrefetchImages(games, favorite, conditions)
  \/ \E url \in Images : DownloadCompletes(url)
  \/ \E url \in Images : DownloadReturns(url)
  \/ BatchDone
  \/ NextBatch

\* the continuations of the awaits of a prefetch: each runs once the timer
\* or the promise it waits for is over
PrefetchStep ==
  \/ \E url \in Images : DownloadCompletes(url)
  \/ \E url \in Images : DownloadReturns(url)
  \/ BatchDone
  \/ NextBatch

SpecPrefetch == Init /\ [][NextPrefetch]_vars /\ WF_vars(PrefetchStep)

(***************************************************************************)
(* Properties of fetchCatalog                                              *)
(***************************************************************************)

\* C1: when the remote stage of a call has failed (its last attempt ended in
\* an error, a validation failure included), the call returns the cached
\* catalog it read if that catalog is non-empty, tagged "cached"; otherwise
\* the bundled catalog if fallbackToBundled is set; otherwise it raises. The
\* bundled catalog is never returned by a call that read a non-empty cache.
C1_FallbackOrder ==
  \A c \in Calls :
    LET k == calls[c]
    IN (k.pc = "done" /\ k.httpCount > 0 /\ k.lastError # "none") =>
         IF k.cachedGames.ok /\ Len(k.cachedGames.games) > 0
           THEN /\ k.result.status = "returned"
                /\ k.result.source = "cached"
                /\ k.result.games = k.cachedGames.games
         ELSE IF k.config.fallbackToBundled
           THEN k.result.status = "returned" /\ k.result.source = "bundled"
         ELSE k.result.status = "raised" /\ k.result.error = k.lastError

\* a call whose three attempts failed, the last on validation, and that
\* returned the cached catalog although fallbackToBundled is set
C1_Witness ==
  \E c \in Calls :
    /\ calls[c].pc = "done"
    /\ calls[c].httpCount = MAX_RETRY_ATTEMPTS
    /\ calls[c].lastError = "Remote catalog failed schema validation"
    /\ calls[c].config.fallbackToBundled
    /\ calls[c].result.source = "cached"
    /\ Len(calls[c].result.games) > 0

\* C2: a call returns a result, and does not raise, whenever fallbackToBundled
\* is set or a non-empty cached catalog exists
C2_NeverRaisesWithFallbackOrCache ==
  \A c \in Calls :
    (/\ calls[c].pc = "done"
     /\ \/ calls[c].config.fallbackToBundled
        \/ CacheNow.ok /\ Len(CacheNow.games) > 0)
    => calls[c].result.status = "returned"

\* C3: a payload with an item that fails validation is rejected as a whole:
\* a payload an attempt accepted is an array none of whose items lacks a
\* required field, the call holds as many games as the payload has items,
\* the cached catalog has as many games as the payload it was validated from,
\* and a call whose last attempt rejected a payload does not return "remote"
C3_AtomicValidation ==
  /\ \A c \in Calls :
       /\ calls[c].served # "none" =>
            /\ calls[c].served \notin {"partial", "notArray"}
            /\ Len(calls[c].remoteGames) = Len(PayloadOf(calls[c].served).items)
       /\ (calls[c].pc = "done" /\ calls[c].rejected # "none") =>
            calls[c].result.source # "remote"
  /\ store[GAMES_CACHE_KEY].has =>
       /\ blobOrigin \notin {"none", "partial", "notArray"}
       /\ Len(JSONParse(store[GAMES_CACHE_KEY].v)) = Len(PayloadOf(blobOrigin).items)

\* a call whose last attempt received the three-item payload with one item
\* lacking its title, and that fell back
C3_Witness ==
  \E c \in Calls :
    /\ calls[c].pc = "done"
    /\ calls[c].rejected = "partial"
    /\ calls[c].result.status = "returned"
    /\ calls[c].result.source \in {"cached", "bundled"}

\* C4: a payload with an item one of whose string fields matches an
\* unsafe-markup pattern is never returned as "remote" and never written to
\* the cache
C4_UnsafeEntryNeverAccepted ==
  LET UnsafeString(v) ==
        /\ v.t = "string"
        /\ \E i \in 1..Len(XSS_PATTERNS) : MatchesFrom(XSS_PATTERNS[i], v.s, 0) # {}
      UnsafePayload(b) ==
        \E i \in 1..Len(PayloadOf(b).items) :
          \E f \in GameFields : UnsafeString(PayloadOf(b).items[i].f[f])
  IN /\ \A c \in Calls :
          (calls[c].pc = "done" /\ calls[c].result.source = "remote"
             /\ calls[c].served # "none")
          => ~UnsafePayload(calls[c].served)
     /\ store[GAMES_CACHE_KEY].has => ~UnsafePayload(blobOrigin)

C6_NoUrlBundledUntouched ==
  \A c \in Calls :
    (calls[c].pc = "done" /\ ~Truthy(calls[c].config.url)) =>
      /\ calls[c].result.status = "returned"
      /\ calls[c].result.source = "bundled"
      /\ ~calls[c].result.fromCache
      /\ calls[c].httpCount = 0
      /\ calls[c].storageOps = 0

\* a call with no url, made while a cached catalog and an etag are stored
C6_Witness ==
  \E c \in Calls :
    /\ calls[c].pc = "done"
    /\ calls[c].config.url = Absent
    /\ calls[c].result.source = "bundled"
    /\ store[GAMES_CACHE_KEY].has
    /\ store[REMOTE_CATALOG_ETAG_KEY].has

C8_InvalidUrlLikeFetchFailure ==
  \A c \in Calls :
    (calls[c].pc = "done" /\ calls[c].via = "invalidurl") =>
      LET f == fallback(CacheNow, calls[c].config.fallbackToBundled, calls[c].result.error)
      IN /\ calls[c].result.status = f.status
         /\ calls[c].result.source = f.source
         /\ calls[c].result.games = f.games

\* C9: a call whose last attempt was answered 304 while storage held an
\* unexpired cached catalog (and delivered it) returns that catalog, tagged
\* "remote"
C9_NotModifiedReturnsCached ==
  \A c \in Calls :
    (calls[c].pc = "done" /\ calls[c].cache304.ok) =>
      /\ calls[c].result.status = "returned"
      /\ calls[c].result.source = "remote"
      /\ calls[c].result.games = calls[c].cache304.games

\* a call that read a stored etag, was answered 304 and returned the
\* non-empty cached catalog
C9_Witness ==
  \E c \in Calls :
    /\ calls[c].pc = "done"
    /\ calls[c].storedEtag.has
    /\ calls[c].cache304.ok
    /\ Len(calls[c].cache304.games) > 0
    /\ calls[c].result.source = "remote"

\* C10: a call that succeeds on a 304 found a cached catalog and returns a
\* games list that is not empty
C10_NotModifiedNeverEmpty ==
  \A c \in Calls :
    (calls[c].pc = "done" /\ calls[c].via = "remote304") =>
      /\ calls[c].cache304.ok
      /\ Len(calls[c].result.games) > 0

\* C11: after a call that succeeded on a 200 response, storage holds together
\* the catalog the call returned, the etag of that response and the time of
\* the call (no storage operation having failed)
C11_SuccessOverwritesCacheAtomically ==
  \A c \in Calls :
    (calls[c].pc = "done" /\ calls[c].via = "remote200" /\ failures = 0) =>
      /\ store[GAMES_CACHE_KEY] = Item(JSONStringify(calls[c].result.games))
      /\ store[CACHE_TIMESTAMP_KEY] = Item(NumberToString(now))
      /\ store[REMOTE_CATALOG_ETAG_KEY] = calls[c].servedEtag

\* C12: a call that succeeded on a 200 response reports, not from cache, the
\* etag of that response, and that etag is the one storage holds
C12_EtagOfResponseReturned ==
  \A c \in Calls :
    (calls[c].pc = "done" /\ calls[c].via = "remote200") =>
      /\ calls[c].result.source = "remote"
      /\ ~calls[c].result.fromCache
      /\ calls[c].result.etag = calls[c].servedEtag
      /\ failures = 0 => store[REMOTE_CATALOG_ETAG_KEY] = calls[c].result.etag

\* the ways a request fails transiently: the fetch rejects (network error, or
\* the abort at the timeout) or the server answers 5xx
TransientFailures == {Rejected, Response(500, FALSE, NoItem, "none")}

\* C13: an attempt that fails transiently is followed, after one delay, by
\* the next attempt while fewer than 3 requests were made, and by the
\* fallback chain with no delay once the third request has failed; a call
\* whose attempts failed that way has made exactly 3 requests and waited
\* exactly 2 delays when it enters the fallback chain
C13_TransientFailuresThreeAttempts ==
  /\ [](\A c \in Calls :
         /\ calls[c].pc = "attempt" =>
              /\ calls[c].attempt \in 1..MAX_RETRY_ATTEMPTS
              /\ calls[c].httpCount = calls[c].attempt - 1
              /\ calls[c].delays = calls[c].attempt - 1
         /\ (calls[c].pc \in {"fallback", "done"}
               /\ calls[c].lastError = "fetch rejected") =>
              /\ calls[c].httpCount = MAX_RETRY_ATTEMPTS
              /\ calls[c].delays = MAX_RETRY_ATTEMPTS - 1
              /\ calls[c].via = "fallback")
  /\ [][\A c \in Calls : \A r \in TransientFailures :
          AttemptOn(c, r) =>
            /\ calls'[c].httpCount = calls[c].httpCount + 1
            /\ IF calls[c].attempt < MAX_RETRY_ATTEMPTS
                 THEN /\ calls'[c].pc = "attempt"
                      /\ calls'[c].attempt = calls[c].attempt + 1
                      /\ calls'[c].delays = calls[c].delays + 1
                 ELSE /\ calls'[c].pc = "fallback"
                      /\ calls'[c].delays = calls[c].delays]_vars

\* a call whose three requests were all rejected and that then fell back,
\* having waited two delays
C13_Witness ==
  \E c \in Calls :
    /\ calls[c].pc = "done"
    /\ calls[c].via = "fallback"
    /\ calls[c].lastError = "fetch rejected"
    /\ calls[c].httpCount = MAX_RETRY_ATTEMPTS
    /\ calls[c].delays = MAX_RETRY_ATTEMPTS - 1

\* C14: an attempt answered with a 4xx status is the last request of its
\* call: the call enters the fallback chain without a delay
C14_ClientErrorNotRetried ==
  [][\A c \in Calls :
       AttemptOn(c, Response(404, FALSE, NoItem, "none")) =>
         /\ calls'[c].pc = "fallback"
         /\ calls'[c].delays = calls[c].delays]_vars

\* C15: an attempt answered 200 with a JSON catalog that fails validation is
\* the last request of its call: the call goes to the fallback chain
C15_ValidationFailureNotRetried ==
  [][\A c \in Calls : \A b \in {"partial", "notArray"} :
       AttemptOn(c, Response(200, TRUE, NoItem, b)) =>
         /\ calls'[c].pc = "fallback"
         /\ calls'[c].httpCount = calls[c].httpCount + 1
         /\ calls'[c].delays = calls[c].delays]_vars

\* C17: a clearRemoteCache call leaves the catalog blob, its timestamp, the
\* etag and the last-fetch key all absent, or leaves storage as it was
C17_ClearAllOrNothing ==
  [][ClearRemoteCache =>
       \/ \A k \in CatalogKeys : ~store'[k].has
       \/ store' = store]_vars

C20_CachedNeverOlderThanExpiry ==
  \A c \in Calls :
    (calls[c].pc = "done" /\ calls[c].result.source = "cached") =>
      now - calls[c].cachedStamp <= CACHE_EXPIRY_MS

\* C20 as amended: getCachedGames delivers no catalog whose stored timestamp
\* is more than 24 hours old at the read, and removes blob and timestamp of
\* such a catalog; a "cached" result carries a catalog that was at most 24
\* hours old when the call read it, at the start of the call
C20_CachedNotExpiredWhenRead ==
  /\ [](/\ CacheNow.ok => now - parseInt(store[CACHE_TIMESTAMP_KEY].v) <= CACHE_EXPIRY_MS
        /\ \A c \in Calls :
             /\ calls[c].cachedGames.ok => calls[c].cachedAge <= CACHE_EXPIRY_MS
             /\ (calls[c].pc = "done" /\ calls[c].result.source = "cached") =>
                  /\ calls[c].cachedGames.ok
                  /\ calls[c].result.games = calls[c].cachedGames.games
                  /\ calls[c].cachedAge <= CACHE_EXPIRY_MS)
  /\ [][\A c \in Calls :
          (/\ GetCachedGames(c)
           /\ store[GAMES_CACHE_KEY].has
           /\ store[CACHE_TIMESTAMP_KEY].has
           /\ now - parseInt(store[CACHE_TIMESTAMP_KEY].v) > CACHE_EXPIRY_MS)
          => /\ calls'[c].cachedGames = NoGames
             /\ failures' = failures =>
                  /\ ~store'[GAMES_CACHE_KEY].has
                  /\ ~store'[CACHE_TIMESTAMP_KEY].has]_vars

\* a call that returned, as "cached", a catalog exactly 24 hours old when it
\* was read, after an earlier catalog had expired and been removed
C20_Witness ==
  \E c \in Calls :
    /\ calls[c].pc = "done"
    /\ calls[c].result.source = "cached"
    /\ calls[c].cachedAge = CACHE_EXPIRY_MS
    /\ Len(calls[c].result.games) > 0

(***************************************************************************)
(* Properties of two calls                                                 *)
(***************************************************************************)

\* the three requests of the call of c failed, the last by rejection
C16_Unreachable(c) ==
  /\ calls[c].pc = "done"
  /\ calls[c].via = "fallback"
  /\ calls[c].httpCount = MAX_RETRY_ATTEMPTS
  /\ calls[c].lastError = "fetch rejected"

\* C16: when the two calls both found the network unreachable and one of
\* them read a non-empty unexpired cached catalog, both return "cached" with
\* the same games
C16_OfflineIdempotence ==
  (/\ \A c \in Calls : C16_Unreachable(c)
   /\ \E c \in Calls : calls[c].cachedGames.ok /\ Len(calls[c].cachedGames.games) > 0)
  => /\ \A c \in Calls :
          /\ calls[c].result.status = "returned"
          /\ calls[c].result.source = "cached"
          /\ calls[c].result.fromCache
     /\ calls["launch"].result.games = calls["refresh"].result.games
     /\ Len(calls["launch"].result.games) > 0

\* two calls made one after the other, each with three rejected requests,
\* that both returned the cached catalog
C16_Witness ==
  /\ \A c \in Calls : C16_Unreachable(c) /\ ~calls[c].overlapped
  /\ \A c \in Calls : calls[c].result.source = "cached"
  /\ calls["launch"].result.games = calls["refresh"].result.games
  /\ Len(calls["launch"].result.games) > 0

\* C19: two calls are not merged: each call that reaches the remote stage
\* issues requests of its own and returns the result of its own attempts and
\* reads; once both have ended, the catalog blob is the catalog returned by
\* the call whose cacheGames ran last, whole
C19_OverlappingCallsIndependent ==
  (\A c \in Calls : calls[c].pc = "done") =>
    /\ \A c \in Calls :
         /\ calls[c].httpCount >= 1
         /\ calls[c].via \in {"remote200", "remote304"} =>
              /\ calls[c].result = remoteResult(calls[c].remoteGames, calls[c].storedEtag)
              /\ calls[c].origin \in {"plain", "two"}
              /\ Len(calls[c].result.games) = Len(PayloadOf(calls[c].origin).items)
         /\ calls[c].via = "fallback" =>
              calls[c].result = fallback(calls[c].cachedGames,
                                         calls[c].config.fallbackToBundled,
                                         calls[c].lastError)
         /\ calls[c].wroteLast =>
              /\ store[GAMES_CACHE_KEY] = Item(JSONStringify(calls[c].result.games))
              /\ blobOrigin = calls[c].origin
    /\ (\E c \in Calls : calls[c].via \in {"remote200", "remote304"}) =>
         \E c \in Calls :
           /\ calls[c].wroteLast
           /\ \A d \in Calls \ {c} : ~calls[d].wroteLast

\* two overlapping calls that were served different catalogs: the blob is
\* the two-entry catalog of the launch call, which wrote last, and not the
\* one-entry catalog the refresh returned
C19_Witness ==
  /\ \A c \in Calls :
       calls[c].pc = "done" /\ calls[c].overlapped /\ calls[c].via = "remote200"
  /\ calls["launch"].served = "two"
  /\ calls["refresh"].served = "plain"
  /\ calls["launch"].wroteLast
  /\ store[GAMES_CACHE_KEY] = Item(JSONStringify(calls["launch"].result.games))
  /\ calls["launch"].result.games # calls["refresh"].result.games

(***************************************************************************)
(* Properties of the validator                                             *)
(***************************************************************************)
C22_FreshRx ==
  [xss |-> [i \in 1..Len(XSS_PATTERNS) |-> 0],
   url |-> [i \in 1..Len(DANGEROUS_URL_PATTERNS) |-> 0]]

\* C22: validateCatalog is deterministic: whatever was validated before, the
\* valid flag and the sanitized output of a validation are those the same
\* raw input yields when it is the first input the validator sees.
C22_ValidateCatalogDeterministic ==
  validation.input # "none" =>
    LET first == validateCatalog(PayloadOf(validation.input), C22_FreshRx)
    IN /\ validation.isValid = first.isValid
       /\ validation.sanitizedData = first.sanitizedData

\* a url written with ".." segments, and a url that names a loopback host
C28_Traversal(u) == u.t = "string" /\ \E i \in 1..Len(u.s) : u.s[i] = "/.."
C28_Loopback(u) ==
  u.t = "string" /\ \E i \in 1..Len(u.s) : u.s[i] \in {"localhost", "127.0.0.1"}

\* C28: a catalog that validateCatalog finds valid has no entry whose image
\* or url is written with ".." segments or names a loopback host.
C28_TraversalAndLoopbackRejected ==
  validation.isValid =>
    LET items == PayloadOf(validation.input).items
    IN \A i \in 1..Len(items) : \A k \in {"image", "url"} :
         ~C28_Traversal(items[i].f[k]) /\ ~C28_Loopback(items[i].f[k])

(***************************************************************************)
(* Properties of the persisted cache                                       *)
(***************************************************************************)

\* C23: when a fetchCatalog call has ended without returning source "remote"
\* (it returned the cached or the bundled catalog, or it raised), the catalog
\* blob, its timestamp, the stored etag and the last-fetch key are exactly
\* what they were when the call began.
C23_NonRemoteCallLeavesCache ==
  \A c \in Calls :
    (calls[c].pc = "done" /\ calls[c].result.source # "remote")
      => store = calls[c].storeBefore

\* the ETag header of the response that delivered catalog body b
C24_EtagOf(b) == (CHOOSE r \in OverlapResponses : r.body = b).etag

\* C24: in every reachable state of overlapping fetchCatalog calls, a stored
\* etag comes with a stored blob and is the ETag header of the response whose
\* validated catalog that blob is.
C24_EtagBlobCoherence ==
  store[REMOTE_CATALOG_ETAG_KEY].has =>
    /\ store[GAMES_CACHE_KEY].has
    /\ blobOrigin # "none"
    /\ store[REMOTE_CATALOG_ETAG_KEY] = C24_EtagOf(blobOrigin)

\* C25: whenever an etag is persisted, getCachedGames would return a catalog
\* (the blob is persisted, readable and not expired).
C25_EtagImpliesCachedCatalog ==
  store[REMOTE_CATALOG_ETAG_KEY].has => CacheNow.ok

(***************************************************************************)
(* Properties of the requests of a call                                    *)
(***************************************************************************)

\* C27 as stated: every request of a call carries If-None-Match exactly when
\* an etag was in storage when the call read it, with that value.
C27_HeaderIffEtagStored ==
  \A c \in Calls :
    calls[c].httpCount > 0 => calls[c].ifNoneMatch = calls[c].etagAtRead

\* C27, amended: every request of a call (the first and each retry) carries
\* If-None-Match exactly when the call's read of the stored etag returned
\* one, with the value read; a read that fails counts as no etag.
C27_HeaderIffEtagRead ==
  \A c \in Calls :
    calls[c].httpCount > 0 => calls[c].ifNoneMatch = calls[c].storedEtag

\* a retry has been sent with the stored etag
C27_Witness ==
  \E c \in Calls :
    /\ calls[c].httpCount >= 2
    /\ calls[c].storedEtag = Item(<<"v1">>)
    /\ calls[c].ifNoneMatch = Item(<<"v1">>)

\* C26: a call makes at most 3 requests and waits at most 2 delays, makes no
\* request once an attempt has succeeded, and every call that has started
\* eventually has a result or an error for its caller.
C26_CallTerminates ==
  /\ [](\A c \in Calls :
         /\ calls[c].httpCount <= MAX_RETRY_ATTEMPTS
         /\ calls[c].delays <= MAX_RETRY_ATTEMPTS - 1
         /\ calls[c].via \in {"remote200", "remote304"} =>
              calls[c].pc \in {"cacheGames", "done"})
  /\ \A c \in Calls : InFlight(c) ~> calls[c].pc = "done"

(***************************************************************************)
(* Properties of the favorites service                                     *)
(***************************************************************************)
\* the membership of the game of the last operation before that operation:
\* what the service had loaded, or what was persisted if it had loaded nothing
C21_MemberBefore ==
  LET last == favoritesService.last
  IN IF last.initializedBefore THEN last.game \in last.favoritesBefore
     ELSE last.game \in last.persistedBefore

\* C21: a toggleFavorite called while favorites are allowed and storage works
\* returns true and leaves isFavorite the negation of the membership before
\* the call, whether or not the service was initialized; after two such
\* toggles in a row the membership is the one before the first.
C21_ToggleFlipsMembership ==
  LET fs == favoritesService
  IN (fs.last.op = "toggle" /\ fs.last.allowed /\ fs.last.storageOk) =>
       /\ fs.last.returned
       /\ isFavorite(fs, fs.last.game) = ~C21_MemberBefore
       /\ fs.last.again => isFavorite(fs, fs.last.game) = fs.last.memberBeforePrevious

\* C29: when addFavorite or removeFavorite has returned false, isFavorite
\* answers for every game as it did before the call, and if the favorites in
\* memory were those persisted before the call they still are.
C29_RejectedOperationChangesNothing ==
  LET fs == favoritesService
  IN (fs.last.op \in {"add", "remove"} /\ ~fs.last.returned) =>
       /\ \A g \in GameIds : isFavorite(fs, g) = (g \in fs.last.favoritesBefore)
       /\ fs.last.favoritesBefore = fs.last.persistedBefore =>
            fs.favorites = fs.persisted.ids

(***************************************************************************)
(* Properties of the image cache                                           *)
(***************************************************************************)

\* C30: every image that prefetchImages has placed in the prefetch queue is
\* eventually in the image cache, also when its job found
\* MAX_CONCURRENT_DOWNLOADS downloads active.
C30_NoPrefetchJobLost ==
  \A url \in Images :
    (url \in imageCacheService.queued) ~> (url \in imageCacheService.cache)

====
